---- MODULE Spec2Model ----
(***************************************************************************)
(* Model of AviaxMusic/platforms/Youtube.py (class YouTubeAPI).            *)
(*                                                                         *)
(* The methods of YouTubeAPI are coroutines that the bot runs as tasks of  *)
(* one asyncio event loop.  A task runs alone from one await to the next;  *)
(* at an await that suspends it, any other task may run.  The workers of   *)
(* download (audio_dl, video_dl, song_video_dl, song_audio_dl) run in the  *)
(* threads of the default executor, next to the event loop and to each     *)
(* other.  The model has MaxTasks tasks.  Every action is one such step of *)
(* one task: the code between two awaits of a coroutine, or one call of a  *)
(* worker that changes the downloads directory.  A step draws the          *)
(* behaviour of the external collaborator it meets (yt-dlp, VideosSearch,  *)
(* the yt-dlp executable, is_on_off) from a small set.                     *)
(*                                                                         *)
(* pc[t] is the await at which task t is suspended ("idle": no call in     *)
(* progress), op[t] and args[t] are the method it runs and its arguments,  *)
(* env[t] the collaborators' behaviour it has met so far, trace[t] the     *)
(* collaborator calls it has made and worker[t] the state of its executor  *)
(* job.  files is the downloads directory, shared by all tasks.  done is   *)
(* the call that has just completed (method, arguments, collaborators,     *)
(* outcome and calls), kept until its caller has taken the outcome.        *)
(*                                                                         *)
(* Python values whose type varies (Optional[...], int or str) are tagged  *)
(* records [t |-> <type>, v |-> <value>].  Python strings that the code    *)
(* slices, splits, formats or parses are sequences of characters.          *)
(***************************************************************************)
EXTENDS Integers, Sequences, FiniteSets, TLC

VARIABLES pc, op, args, env, trace, worker, files, done

vars == <<pc, op, args, env, trace, worker, files, done>>

-----------------------------------------------------------------------------
(* Python values *)

NoneVal == [t |-> "None"]
PyInt(n) == [t |-> "int", v |-> n]
PyStr(s) == [t |-> "str", v |-> s]
PyBool(b) == [t |-> "bool", v |-> b]
PyList(l) == [t |-> "list", v |-> l]
PyTuple(l) == [t |-> "tuple", v |-> l]

\* Python truth value of x ("if x:", "x or y", "not x")
Truthy(x) ==
    CASE x.t = "None" -> FALSE
      [] x.t = "int" -> x.v # 0
      [] x.t = "bool" -> x.v
      [] x.t = "str" -> x.v # <<>>
      [] x.t = "list" -> x.v # <<>>
      [] x.t = "tuple" -> x.v # <<>>
      [] OTHER -> TRUE

\* Python "x or y"
PyOr(x, y) == IF Truthy(x) THEN x ELSE y

\* Outcome of a call: a returned value or a raised exception
Returned(v) == [raised |-> FALSE, value |-> v]
Raised(e) == [raised |-> TRUE, error |-> e]

Min(a, b) == IF a < b THEN a ELSE b

\* Python s[lo : hi] for 0 <= lo, 0 <= hi on a sequence
Slice(s, lo, hi) == SubSeq(s, lo + 1, Min(hi, Len(s)))

\* Python s.split(sep)[0]: the part of s before the first sep
SplitFirst(s, sep) ==
    IF \E i \in 1..Len(s) : s[i] = sep
    THEN LET i == CHOOSE k \in 1..Len(s) :
                     s[k] = sep /\ \A j \in 1..(k - 1) : s[j] # sep
         IN SubSeq(s, 1, i - 1)
    ELSE s

-----------------------------------------------------------------------------
(* Bounds *)

MaxEntities == 2        \* longest entity list of a message
MaxReplyEntities == 1   \* longest entity list of a replied-to message
MaxOffset == 1          \* largest offset of a plain-URL span

-----------------------------------------------------------------------------
(* YouTubeAPI.url: messages of the chat collaborator *)

SpanLength == 2         \* length of a plain-URL span

\* text of the message at reply depth d (1 = the message itself)
TextAt(d) ==
    CASE d = 1 -> <<"a", "b", "c", "d", "e">>
      [] d = 2 -> <<"p", "q", "r", "s", "t">>
      [] OTHER -> <<"v", "w", "x", "y", "z">>

\* embedded URL of the rich-link entity of the message at reply depth d
RichUrlAt(d) ==
    CASE d = 1 -> <<"l", "1">>
      [] d = 2 -> <<"l", "2">>
      [] OTHER -> <<"l", "3">>

UrlEntity(o) == [type |-> "URL", offset |-> o, length |-> SpanLength, url |-> NoneVal]
TextLinkEntity(d) == [type |-> "TEXT_LINK", offset |-> 0, length |-> 1, url |-> PyStr(RichUrlAt(d))]

EntitySet(d) == {UrlEntity(o) : o \in 0..MaxOffset} \cup {TextLinkEntity(d)}

\* None (no entities) or a non-empty list of at most max entities
EntityLists(d, max) ==
    {NoneVal} \cup
    {PyList(l) : l \in UNION {[1..n -> EntitySet(d)] : n \in 1..max}}

\* A text message carries text and entities, a media message caption and
\* caption_entities (pyrogram.types.Message).
MessagesAt(d, max, replies) ==
    {[t |-> "Message", text |-> PyStr(TextAt(d)), entities |-> es,
      caption |-> NoneVal, caption_entities |-> NoneVal,
      reply_to_message |-> r] : es \in EntityLists(d, max), r \in replies}
    \cup
    {[t |-> "Message", text |-> NoneVal, entities |-> NoneVal,
      caption |-> PyStr(TextAt(d)), caption_entities |-> es,
      reply_to_message |-> r] : es \in EntityLists(d, max), r \in replies}

\* the reply of a reply: never inspected, so two representatives suffice
Depth3Messages ==
    {m \in MessagesAt(3, 1, {NoneVal}) :
        \/ m.entities = PyList(<<UrlEntity(0)>>)
        \/ m.caption_entities = PyList(<<TextLinkEntity(3)>>)}

Depth2Messages == MessagesAt(2, MaxReplyEntities, {NoneVal} \cup Depth3Messages)

Messages == MessagesAt(1, MaxEntities, {NoneVal} \cup Depth2Messages)

\* index of the first entity of the given type in a list, 0 if none
FirstOfType(l, ty) ==
    IF \E i \in 1..Len(l) : l[i].type = ty
    THEN CHOOSE i \in 1..Len(l) :
             l[i].type = ty /\ \A j \in 1..(i - 1) : l[j].type # ty
    ELSE 0

\* messages = [message_1] (+ [message_1.reply_to_message])
UrlMessages(message_1) ==
    IF Truthy(message_1.reply_to_message)
    THEN <<message_1, message_1.reply_to_message>>
    ELSE <<message_1>>

\* the "for message in messages" loop from its i-th iteration on;
\* st = [text, offset, length, returned, ret]
RECURSIVE UrlLoop(_, _, _)
UrlLoop(messages, i, st) ==
    IF i > Len(messages) THEN st
    ELSE IF Truthy(st.offset) THEN st                    \* if offset: break
    ELSE LET message == messages[i] IN
         IF Truthy(message.entities)
         THEN LET k == FirstOfType(message.entities.v, "URL") IN
              IF k = 0 THEN UrlLoop(messages, i + 1, st)
              ELSE LET entity == message.entities.v[k] IN
                   UrlLoop(messages, i + 1,
                           [st EXCEPT !.text = PyOr(message.text, message.caption),
                                      !.offset = PyInt(entity.offset),
                                      !.length = PyInt(entity.length)])
         ELSE IF Truthy(message.caption_entities)
         THEN LET k == FirstOfType(message.caption_entities.v, "TEXT_LINK") IN
              IF k = 0 THEN UrlLoop(messages, i + 1, st)
              ELSE [st EXCEPT !.returned = TRUE,
                              !.ret = message.caption_entities.v[k].url]
         ELSE UrlLoop(messages, i + 1, st)

\* YouTubeAPI.url(message_1)
UrlRun(message_1) ==
    LET st == UrlLoop(UrlMessages(message_1), 1,
                      [text |-> PyStr(<<>>), offset |-> NoneVal, length |-> NoneVal,
                       returned |-> FALSE, ret |-> NoneVal])
    IN IF st.returned THEN Returned(st.ret)
       ELSE IF st.offset = NoneVal THEN Returned(NoneVal)
       ELSE IF st.text.t # "str" THEN Raised("TypeError")
       ELSE Returned(PyStr(Slice(st.text.v, st.offset.v, st.offset.v + st.length.v)))

-----------------------------------------------------------------------------
(* Decimal formatting and parsing of durations *)

Digits == <<"0", "1", "2", "3", "4", "5", "6", "7", "8", "9">>

IsDigit(c) == \E d \in 1..10 : Digits[d] = c

DigitValue(c) == (CHOOSE d \in 1..10 : Digits[d] = c) - 1

\* Python str(n) / f"{n}" for n >= 0
RECURSIVE Decimal(_)
Decimal(n) ==
    IF n < 10 THEN <<Digits[n + 1]>>
    ELSE Decimal(n \div 10) \o <<Digits[(n % 10) + 1]>>

\* Python f"{n:02d}" for n >= 0
Pad2(n) == IF n < 10 THEN <<"0">> \o Decimal(n) ELSE Decimal(n)

\* f"{duration_sec // 60}:{duration_sec % 60:02d}"
FormatMinSec(duration_sec) ==
    Decimal(duration_sec \div 60) \o <<":">> \o Pad2(duration_sec % 60)

\* Python s.split(sep): the list of the parts of s between the separators
RECURSIVE SplitAll(_, _)
SplitAll(s, sep) ==
    IF \E i \in 1..Len(s) : s[i] = sep
    THEN LET head == SplitFirst(s, sep)
         IN <<head>> \o SplitAll(SubSeq(s, Len(head) + 2, Len(s)), sep)
    ELSE <<s>>

\* Python int(s) for a string of decimal digits
RECURSIVE ParseInt(_)
ParseInt(s) ==
    IF Len(s) = 1 THEN DigitValue(s[1])
    ELSE 10 * ParseInt(SubSeq(s, 1, Len(s) - 1)) + DigitValue(s[Len(s)])

IsNumeral(s) == Len(s) > 0 /\ \A i \in 1..Len(s) : IsDigit(s[i])

RECURSIVE Pow60(_)
Pow60(i) == IF i = 0 THEN 1 ELSE 60 * Pow60(i - 1)

\* sum of int(x) * 60 ** i over the colon-separated parts, last part first
RECURSIVE PositionalSum(_)
PositionalSum(parts) ==
    IF parts = <<>> THEN 0
    ELSE ParseInt(parts[1]) * Pow60(Len(parts) - 1)
         + PositionalSum(SubSeq(parts, 2, Len(parts)))

\* AviaxMusic.utils.formatters.time_to_seconds(time): the colon-separated
\* fields of str(time) weighted by powers of 60; a string without a colon is
\* whole seconds
time_to_seconds(time) ==
    IF time.t # "str" THEN Raised("ValueError")
    ELSE LET parts == SplitAll(time.v, ":")
         IN IF \A i \in 1..Len(parts) : IsNumeral(parts[i])
            THEN Returned(PositionalSum(parts))
            ELSE Raised("ValueError")

-----------------------------------------------------------------------------
(* YouTubeAPI.details and the methods built on it *)

base == <<"https://www.youtube.com/watch?v=">>
listbase == <<"https://youtube.com/playlist?list=">>

VideoId == <<"dQw4w9WgXcQ">>

\* (link, videoid) arguments: a URL, a URL with a tracking parameter, a bare id
LinkArgs ==
    {[link |-> <<"https://youtu.be/">> \o VideoId, videoid |-> NoneVal],
     [link |-> <<"https://youtu.be/">> \o VideoId \o <<"&", "t=1">>, videoid |-> NoneVal],
     [link |-> VideoId, videoid |-> PyBool(TRUE)]}

\* if videoid: link = prefix + link;  if "&" in link: link = link.split("&")[0]
NormalizeLink(prefix, link, videoid) ==
    LET l == IF Truthy(videoid) THEN prefix \o link ELSE link
    IN IF \E i \in 1..Len(l) : l[i] = "&" THEN SplitFirst(l, "&") ELSE l

\* d.get(k, default)
Get(d, k, default) == IF k \in DOMAIN d THEN d[k] ELSE default

Absent == [t |-> "absent"]

\* the info dict with the given values under the keys whose value is not Absent
InfoDict(title, duration, id) ==
    LET val == [title |-> title, duration |-> duration, id |-> id]
    IN [k \in {x \in DOMAIN val : val[x] # Absent} |-> val[k]]

InfoTitle == PyStr(<<"Test Song">>)
InfoId == PyStr(VideoId)

\* ydl.extract_info(link, download=False) of details: it raises, or returns
\* an info dict: complete, without its title, with a duration over an hour,
\* with an empty title, with a zero, missing or null duration, without its id
PrimaryOutcomes ==
    {[raises |-> TRUE]} \cup
    {[raises |-> FALSE, info |-> i] :
        i \in {InfoDict(InfoTitle, PyInt(212), InfoId),
               InfoDict(Absent, PyInt(3723), InfoId),
               InfoDict(PyStr(<<>>), PyInt(212), InfoId),
               InfoDict(InfoTitle, PyInt(0), InfoId),
               InfoDict(InfoTitle, Absent, InfoId),
               InfoDict(InfoTitle, NoneVal, InfoId),
               InfoDict(InfoTitle, PyInt(212), Absent)}}

SearchDurations ==
    {NoneVal,
     PyStr(<<"3", ":", "3", "2">>),
     PyStr(<<"1", ":", "0", "2", ":", "0", "3">>),
     PyStr(<<"4", "5">>)}

SearchResults ==
    {[title |-> PyStr(<<"Found Song">>), duration |-> d,
      thumbnails |-> <<[url |-> <<"https://i.ytimg.com/vi/x.jpg", "?", "sqp=1">>]>>,
      id |-> PyStr(<<"found0id">>)] : d \in SearchDurations}

\* (await VideosSearch(link, limit=1).next()): raises or returns {"result": [...]}
SearchOutcomes ==
    {[raises |-> TRUE]} \cup
    {[raises |-> FALSE, result |-> l] : l \in {<<>>} \cup {<<r>> : r \in SearchResults}}

ExtractEvent(link, download) == [call |-> "extract_info", link |-> link, download |-> download]
SearchEvent(link) == [call |-> "VideosSearch", link |-> link]

\* lines 76-82 and 88-94: one query of the search provider mapped to the tuple
SearchFallback(outcome) ==
    IF outcome.raises THEN Raised("SearchError")
    ELSE IF outcome.result = <<>> THEN Raised("IndexError")
    ELSE LET res == outcome.result[1]
             duration_min == res.duration
             duration_sec == time_to_seconds(duration_min)
             thumbnail == PyStr(SplitFirst(res.thumbnails[1].url, "?"))
         IN IF duration_sec.raised THEN duration_sec
            ELSE Returned(PyTuple(<<res.title, duration_min, PyInt(duration_sec.value),
                                    thumbnail, res.id>>))

\* DetailsTry that runs the fallback query of an extraction that raised inside
\* the try block, so that the handler queries again when that query fails
DetailsTry_FallbackInsideTry(link, videoid, primary) ==
    LET l == NormalizeLink(base, link, videoid)
        extract == ExtractEvent(l, FALSE)
        search == SearchEvent(l)
        \* except Exception: results = VideosSearch(link, limit=1); await
        handler == [next |-> "handler_search", out |-> NoneVal,
                    trace |-> <<extract, search>>]
    IN IF primary.raises
       THEN [next |-> "try_search", out |-> NoneVal, trace |-> <<extract, search>>]
       ELSE LET info == primary.info
                title == Get(info, "title", PyStr(<<"No Title">>))
                duration_sec == Get(info, "duration", PyInt(0))
            IN IF duration_sec.t # "int" THEN handler               \* TypeError
               ELSE IF "id" \notin DOMAIN info THEN handler         \* KeyError
               ELSE LET duration_min == PyStr(FormatMinSec(duration_sec.v))
                        vidid == info["id"]
                        thumbnail == PyStr(<<"https://img.youtube.com/vi/">> \o vidid.v
                                           \o <<"/maxresdefault.jpg">>)
                    IN IF Truthy(title) /\ Truthy(duration_sec) /\ Truthy(thumbnail)
                       THEN [next |-> "return",
                             out |-> Returned(PyTuple(<<title, duration_min, duration_sec,
                                                       thumbnail, vidid>>)),
                             trace |-> <<extract>>]
                       ELSE [next |-> "try_search", out |-> NoneVal,
                             trace |-> <<extract, search>>]

\* lines 53-84 and 85-88: details from its call to its first await, or to its
\* return when it does not await.  The result is [next, out, trace]:
\*   next = "return": details returned out (line 84) without awaiting;
\*   next = "try_search": it is suspended at the await of line 77;
\*   next = "handler_search": it is suspended at the await of line 89.
DetailsTry(link, videoid, primary) ==
    LET l == NormalizeLink(base, link, videoid)
        extract == ExtractEvent(l, FALSE)
        search == SearchEvent(l)
        \* except Exception: results = VideosSearch(link, limit=1); await
        handler == [next |-> "handler_search", out |-> NoneVal,
                    trace |-> <<extract, search>>]
    IN IF primary.raises THEN handler
       ELSE LET info == primary.info
                title == Get(info, "title", PyStr(<<"No Title">>))
                duration_sec == Get(info, "duration", PyInt(0))
            IN IF duration_sec.t # "int" THEN handler               \* TypeError
               ELSE IF "id" \notin DOMAIN info THEN handler         \* KeyError
               ELSE LET duration_min == PyStr(FormatMinSec(duration_sec.v))
                        vidid == info["id"]
                        thumbnail == PyStr(<<"https://img.youtube.com/vi/">> \o vidid.v
                                           \o <<"/maxresdefault.jpg">>)
                    IN IF Truthy(title) /\ Truthy(duration_sec) /\ Truthy(thumbnail)
                       THEN [next |-> "return",
                             out |-> Returned(PyTuple(<<title, duration_min, duration_sec,
                                                       thumbnail, vidid>>)),
                             trace |-> <<extract>>]
                       ELSE [next |-> "try_search", out |-> NoneVal,
                             trace |-> <<extract, search>>]

\* details resumed at the await of line 77 (where = "try_search") or of line
\* 89 (where = "handler_search") with the outcome of the query.  An exception
\* of lines 77-82 is caught at line 85 and the handler queries again; an
\* exception of lines 89-94 leaves details.  The result is [next, out, trace]
\* with the calls made by this step.
SearchResumed(where, l, outcome) ==
    LET r == SearchFallback(outcome)
    IN IF r.raised /\ where = "try_search"
       THEN [next |-> "handler_search", out |-> NoneVal, trace |-> <<SearchEvent(l)>>]
       ELSE [next |-> "return", out |-> r, trace |-> <<>>]

\* YouTubeAPI.details(link, videoid) from call to return; searches[n] is the
\* outcome of the n-th query of the search provider.  The result is
\* [out, trace].
DetailsRun(link, videoid, primary, searches) ==
    LET l == NormalizeLink(base, link, videoid)
        s0 == DetailsTry(link, videoid, primary)
    IN IF s0.next = "return" THEN [out |-> s0.out, trace |-> s0.trace]
       ELSE LET s1 == SearchResumed(s0.next, l, searches[1])
            IN IF s1.next = "return"
               THEN [out |-> s1.out, trace |-> s0.trace \o s1.trace]
               ELSE LET s2 == SearchResumed(s1.next, l, searches[2])
                    IN [out |-> s2.out, trace |-> s0.trace \o s1.trace \o s2.trace]

\* "details[i] if details else None" of title, duration and thumbnail
\* (i counted from 0); an exception of details passes through
DetailsField(details, i) ==
    IF details.raised THEN details
    ELSE Returned(IF Truthy(details.value) THEN details.value.v[i + 1] ELSE NoneVal)

\* YouTubeAPI.track after "details = await self.details(link, videoid)"
TrackRun(details) ==
    IF details.raised THEN details
    ELSE IF ~Truthy(details.value)
    THEN Returned(PyTuple(<<NoneVal, NoneVal>>))
    ELSE LET d == details.value.v
             title == d[1]
             duration_min == d[3]
             thumbnail == d[4]
             vidid == d[5]
             yturl == PyStr(<<"https://youtu.be/">> \o vidid.v)
         IN Returned(PyTuple(<<[title |-> title, link |-> yturl, vidid |-> vidid,
                                duration_min |-> duration_min, thumb |-> thumbnail],
                               vidid>>))

\* what the method called name returns for the outcome of its await of details
Wrap(name, details) ==
    CASE name = "details" -> details
      [] name = "title" -> DetailsField(details, 0)
      [] name = "duration" -> DetailsField(details, 1)
      [] name = "thumbnail" -> DetailsField(details, 3)
      [] name = "track" -> TrackRun(details)

-----------------------------------------------------------------------------
(* YouTubeAPI.video and YouTubeAPI.playlist *)

StreamUrl == <<"https://cdn.example/stream">>

\* ydl.extract_info(link, download=False) of video
VideoOutcomes ==
    {[raises |-> TRUE],
     [raises |-> FALSE, info |-> [id |-> PyStr(VideoId)]],
     [raises |-> FALSE, info |-> [id |-> PyStr(VideoId), url |-> PyStr(StreamUrl)]]}

\* YouTubeAPI.video(link, videoid)
VideoRun(link, videoid, outcome) ==
    LET l == NormalizeLink(base, link, videoid)
    IN [out |-> IF outcome.raises
                THEN Returned(PyTuple(<<PyInt(0), PyStr(<<"DownloadError">>)>>))
                ELSE IF "url" \in DOMAIN outcome.info
                THEN Returned(PyTuple(<<PyInt(1), outcome.info["url"]>>))
                ELSE Returned(PyTuple(<<PyInt(0), PyStr(<<"No direct URL found">>)>>)),
        trace |-> <<ExtractEvent(l, FALSE)>>]

PlaylistLink == <<"PL0">>
PlaylistMembers == <<PyStr(<<"id1">>), PyStr(<<"id2">>), PyStr(<<"id3">>)>>
PlaylistLimits == {1, 2}

\* ydl.extract_info(link, download=False) with extract_flat and
\* playlistend = limit: raises, or returns info with or without entries
PlaylistOutcomes(limit) ==
    {[raises |-> TRUE], [raises |-> FALSE, info |-> [id |-> PyStr(PlaylistLink)]]}
    \cup
    {[raises |-> FALSE,
      info |-> [id |-> PyStr(PlaylistLink),
                entries |-> [i \in 1..n |-> [id |-> PlaylistMembers[i]]]]] :
        n \in 0..Min(limit, Len(PlaylistMembers))}

\* YouTubeAPI.playlist(link, limit, user_id, videoid)
PlaylistRun(link, limit, videoid, outcome) ==
    LET l == NormalizeLink(listbase, link, videoid)
    IN [out |-> IF outcome.raises THEN Returned(PyList(<<>>))
                ELSE IF "entries" \in DOMAIN outcome.info
                THEN Returned(PyList([i \in 1..Len(outcome.info["entries"]) |->
                                         outcome.info["entries"][i].id]))
                ELSE Returned(PyList(<<>>)),
        trace |-> <<ExtractEvent(l, FALSE)>>]

-----------------------------------------------------------------------------
(* YouTubeAPI.download *)

\* f"{x}" of a str or None
Format(x) == IF x.t = "None" THEN <<"None">> ELSE x.v

\* 'downloads/<stem>.<ext>'
Path(stem, ext) == <<"downloads/">> \o stem \o <<".", ext>>

\* path.endswith('.' + ext)
EndsWith(path, ext) ==
    Len(path) >= 2 /\ path[Len(path) - 1] = "." /\ path[Len(path)] = ext

\* os.path.splitext(path)[0]: path without its last ".<ext>"
SplitExtRoot(path) ==
    IF \E i \in 1..Len(path) : path[i] = "."
    THEN LET i == CHOOSE k \in 1..Len(path) :
                     path[k] = "." /\ \A j \in (k + 1)..Len(path) : path[j] # "."
         IN SubSeq(path, 1, i - 1)
    ELSE path

\* the backend's extraction with download: it raises, or writes the file at
\* the templated path with the extension ext of the selected format;
\* original_kept tells whether that file is still there after an audio
\* post-processor has produced the .mp3 next to it
BackendOutcomes(job) ==
    {[raises |-> TRUE]} \cup
    CASE job \in {"audio_dl", "song_audio_dl"} ->
            {[raises |-> FALSE, ext |-> "mp3", original_kept |-> FALSE]} \cup
            {[raises |-> FALSE, ext |-> "webm", original_kept |-> k] : k \in BOOLEAN}
      [] job = "video_dl" ->
            {[raises |-> FALSE, ext |-> e, original_kept |-> TRUE] : e \in {"mp4", "webm"}}
      [] job = "song_video_dl" ->
            {[raises |-> FALSE, ext |-> "mp4", original_kept |-> TRUE]}

\* stdout of "yt-dlp -g -f best[height<=720] link"
SubprocessStdouts == {<<>>, <<StreamUrl, "\n">>}

\* the FFmpegExtractAudio post-processor with preferredcodec mp3 on path
ExtractAudio(fs, path, original_kept) ==
    IF EndsWith(path, "mp3") THEN fs
    ELSE (fs \cup {SplitExtRoot(path) \o <<".", "mp3">>})
         \ (IF original_kept THEN {} ELSE {path})

RenameEvent(src, dst) == [call |-> "rename", src |-> src, dst |-> dst]
DownloadEvent(link) == [call |-> "download", link |-> link]
FlagEvent == [call |-> "is_on_off"]
SubprocessEvent(link) == [call |-> "subprocess", link |-> link]

\* "if videoid: link = self.base + link"
DownloadLink(a) == IF Truthy(a.videoid) THEN base \o a.link ELSE a.link

\* download from its call to its first await: the job handed to the executor
\* (next = "executor") or the await of is_on_off(1) (next = "is_on_off")
DownloadStart(a) ==
    IF Truthy(a.songvideo)
    THEN [next |-> "executor", job |-> "song_video_dl", trace |-> <<>>]
    ELSE IF Truthy(a.songaudio)
    THEN [next |-> "executor", job |-> "song_audio_dl", trace |-> <<>>]
    ELSE IF Truthy(a.video)
    THEN [next |-> "is_on_off", job |-> "none", trace |-> <<FlagEvent>>]
    ELSE [next |-> "executor", job |-> "audio_dl", trace |-> <<>>]

\* download resumed at "if await is_on_off(1)" with the value flag
FlagResumed(link, flag) ==
    IF flag
    THEN [next |-> "executor", job |-> "video_dl", trace |-> <<>>]
    ELSE [next |-> "create_subprocess", job |-> "none",
          trace |-> <<SubprocessEvent(link)>>]

\* download resumed at "await asyncio.create_subprocess_exec(...)": the
\* executable cannot be started (raises), or proc.communicate() is awaited
SubprocessCreated(raises) ==
    IF raises
    THEN [next |-> "return", out |-> Raised("FileNotFoundError")]
    ELSE [next |-> "communicate", out |-> NoneVal]

\* download resumed at "await proc.communicate()" with stdout
CommunicateResumed(stdout) ==
    IF stdout # <<>>
    THEN [next |-> "return", job |-> "none",
          out |-> Returned(PyTuple(<<PyStr(SplitFirst(stdout, "\n")), PyBool(FALSE)>>))]
    ELSE [next |-> "executor", job |-> "video_dl", out |-> NoneVal]

\* audio_dl() up to "if not path.endswith('.mp3')" (lines 251-254): the
\* result is [next, out, trace, files]; next = "rename" when os.rename is the
\* worker's next call, with the path to rename in out
audio_dl(link, backend, fs) ==
    LET call == <<ExtractEvent(link, TRUE)>>
    IN IF backend.raises
       THEN [next |-> "worker_done", out |-> Raised("DownloadError"),
             trace |-> call, files |-> fs]
       ELSE LET path == Path(VideoId, backend.ext)        \* prepare_filename(info)
                written == ExtractAudio(fs \cup {path}, path, backend.original_kept)
            IN [next |-> IF EndsWith(path, "mp3") THEN "worker_done" ELSE "rename",
                out |-> Returned(PyStr(path)), trace |-> call, files |-> written]

\* audio_dl() from "new_path = ..." to its return (lines 255-258), in the
\* downloads directory as it is when the worker gets there
audio_dl_rename(path, fs) ==
    LET new_path == SplitExtRoot(path) \o <<".", "mp3">>
    IN IF path \in fs                                      \* os.rename(path, new_path)
       THEN [next |-> "worker_done", out |-> Returned(PyStr(new_path)),
             trace |-> <<RenameEvent(path, new_path)>>,
             files |-> (fs \ {path}) \cup {new_path}]
       ELSE [next |-> "worker_done", out |-> Raised("FileNotFoundError"),
             trace |-> <<RenameEvent(path, new_path)>>, files |-> fs]

\* video_dl()
video_dl(link, backend, fs) ==
    LET call == <<ExtractEvent(link, TRUE)>>
    IN IF backend.raises
       THEN [next |-> "worker_done", out |-> Raised("DownloadError"),
             trace |-> call, files |-> fs]
       ELSE LET path == Path(VideoId, backend.ext)
            IN [next |-> "worker_done", out |-> Returned(PyStr(path)), trace |-> call,
                files |-> fs \cup {path}]

\* song_video_dl()
song_video_dl(link, title, backend, fs) ==
    LET call == <<DownloadEvent(link)>>
        path == Path(Format(title), "mp4")
    IN IF backend.raises
       THEN [next |-> "worker_done", out |-> Raised("DownloadError"),
             trace |-> call, files |-> fs]
       ELSE [next |-> "worker_done", out |-> Returned(PyStr(path)), trace |-> call,
             files |-> fs \cup {path}]

\* song_audio_dl()
song_audio_dl(link, title, backend, fs) ==
    LET call == <<DownloadEvent(link)>>
        written == Path(Format(title), backend.ext)
    IN IF backend.raises
       THEN [next |-> "worker_done", out |-> Raised("DownloadError"),
             trace |-> call, files |-> fs]
       ELSE [next |-> "worker_done", out |-> Returned(PyStr(Path(Format(title), "mp3"))),
             trace |-> call,
             files |-> ExtractAudio(fs \cup {written}, written, backend.original_kept)]

\* the job that loop.run_in_executor(None, job) runs in a thread of the pool
WorkerRun(job, a, backend, fs) ==
    CASE job = "audio_dl" -> audio_dl(DownloadLink(a), backend, fs)
      [] job = "video_dl" -> video_dl(DownloadLink(a), backend, fs)
      [] job = "song_video_dl" -> song_video_dl(DownloadLink(a), a.title, backend, fs)
      [] job = "song_audio_dl" -> song_audio_dl(DownloadLink(a), a.title, backend, fs)

\* download resumed at "await loop.run_in_executor(None, job)" with the
\* outcome of the job: "return path" of the song modes, "direct = True;
\* return downloaded_file, direct" of the others; an exception of the job
\* leaves download
DownloadReturn(job, out) ==
    IF out.raised THEN out
    ELSE IF job \in {"song_video_dl", "song_audio_dl"} THEN out
    ELSE Returned(PyTuple(<<out.value, PyBool(TRUE)>>))

Switches == {NoneVal, PyBool(TRUE)}

DownloadArgs ==
    {[link |-> la.link, videoid |-> la.videoid, video |-> v, songaudio |-> sa,
      songvideo |-> sv, format_id |-> PyStr(<<"137">>), title |-> PyStr(<<"MySong">>)] :
        la \in LinkArgs, v \in Switches, sa \in Switches, sv \in Switches}

-----------------------------------------------------------------------------
(* The event loop, its tasks and the workers of the executor *)

MaxTasks == 2

Tasks == 1..MaxTasks

NoCall == [op |-> "none"]

Init ==
    /\ pc = [t \in Tasks |-> "idle"]
    /\ op = [t \in Tasks |-> "none"]
    /\ args = [t \in Tasks |-> NoCall]
    /\ env = [t \in Tasks |-> NoCall]
    /\ trace = [t \in Tasks |-> <<>>]
    /\ worker = [t \in Tasks |-> NoCall]
    /\ files = {}
    /\ done = NoCall

\* task t is suspended at the await where, or its worker is at where
Suspend(t, where, name, a, e, tr, w, fs) ==
    /\ pc' = [pc EXCEPT ![t] = where]
    /\ op' = [op EXCEPT ![t] = name]
    /\ args' = [args EXCEPT ![t] = a]
    /\ env' = [env EXCEPT ![t] = e]
    /\ trace' = [trace EXCEPT ![t] = tr]
    /\ worker' = [worker EXCEPT ![t] = w]
    /\ files' = fs
    /\ UNCHANGED done

\* the call of task t ends with the outcome out
Complete(t, name, a, e, out, tr) ==
    /\ pc' = [pc EXCEPT ![t] = "idle"]
    /\ op' = [op EXCEPT ![t] = "none"]
    /\ args' = [args EXCEPT ![t] = NoCall]
    /\ env' = [env EXCEPT ![t] = NoCall]
    /\ trace' = [trace EXCEPT ![t] = <<>>]
    /\ worker' = [worker EXCEPT ![t] = NoCall]
    /\ done' = [op |-> name, args |-> a, env |-> e, result |-> out, trace |-> tr]
    /\ UNCHANGED files

\* task t may start a call
Idle(t) == done = NoCall /\ pc[t] = "idle"

\* task t of the method name is suspended at the await where
At(t, name, where) == done = NoCall /\ op[t] = name /\ pc[t] = where

\* url has no await that suspends it: one step from call to return
Url ==
    \E t \in Tasks :
        /\ Idle(t)
        /\ \E message_1 \in Messages :
            Complete(t, "url", [message_1 |-> message_1], NoCall,
                     UrlRun(message_1), <<>>)

\* details, title, duration, thumbnail and track share their arguments; the
\* call runs to the first await of details, or to its return
Metadata(name) ==
    \E t \in Tasks :
        /\ Idle(t)
        /\ \E la \in LinkArgs, primary \in PrimaryOutcomes :
            LET s == DetailsTry(la.link, la.videoid, primary)
                e == [primary |-> primary, searches |-> <<>>]
            IN IF s.next = "return"
               THEN Complete(t, name, la, e, Wrap(name, s.out), s.trace)
               ELSE Suspend(t, s.next, name, la, e, s.trace, NoCall, files)

Details == Metadata("details")
Title == Metadata("title")
Duration == Metadata("duration")
Thumbnail == Metadata("thumbnail")
Track == Metadata("track")

MetadataOps == {"details", "title", "duration", "thumbnail", "track"}

\* the search provider answers the query a task awaits at line 77 or 89
SearchResume ==
    \E t \in Tasks :
        /\ done = NoCall
        /\ op[t] \in MetadataOps
        /\ pc[t] \in {"try_search", "handler_search"}
        /\ \E outcome \in SearchOutcomes :
            LET s == SearchResumed(pc[t], NormalizeLink(base, args[t].link, args[t].videoid),
                                   outcome)
                e == [env[t] EXCEPT !.searches = Append(@, outcome)]
            IN IF s.next = "return"
               THEN Complete(t, op[t], args[t], e, Wrap(op[t], s.out),
                             trace[t] \o s.trace)
               ELSE Suspend(t, s.next, op[t], args[t], e, trace[t] \o s.trace,
                            NoCall, files)

\* video has no await that suspends it
Video ==
    \E t \in Tasks :
        /\ Idle(t)
        /\ \E la \in LinkArgs, outcome \in VideoOutcomes :
            LET run == VideoRun(la.link, la.videoid, outcome)
            IN Complete(t, "video", la, [backend |-> outcome], run.out, run.trace)

\* playlist has no await that suspends it
Playlist ==
    \E t \in Tasks :
        /\ Idle(t)
        /\ \E videoid \in Switches, limit \in PlaylistLimits :
           \E outcome \in PlaylistOutcomes(limit) :
            LET run == PlaylistRun(PlaylistLink, limit, videoid, outcome)
            IN Complete(t, "playlist",
                        [link |-> PlaylistLink, limit |-> limit, videoid |-> videoid],
                        [backend |-> outcome], run.out, run.trace)

\* the collaborators a call of download has not met yet
NotMet == [flag |-> NoneVal, subprocess |-> NoneVal, backend |-> NoneVal]

\* download is called and runs to its first await (lines 233-236, 303-331)
Download ==
    \E t \in Tasks :
        /\ Idle(t)
        /\ \E a \in DownloadArgs :
            LET s == DownloadStart(a)
            IN Suspend(t, s.next, "download", a, NotMet, s.trace,
                       [job |-> s.job, out |-> NoneVal], files)

\* is_on_off(1) answers (line 310)
FlagResume ==
    \E t \in Tasks :
        /\ At(t, "download", "is_on_off")
        /\ \E flag \in BOOLEAN :
            LET s == FlagResumed(DownloadLink(args[t]), flag)
            IN Suspend(t, s.next, "download", args[t],
                       [env[t] EXCEPT !.flag = PyBool(flag)], trace[t] \o s.trace,
                       [job |-> s.job, out |-> NoneVal], files)

\* the subprocess is created, or cannot be (lines 314-322)
SubprocessCreate ==
    \E t \in Tasks :
        /\ At(t, "download", "create_subprocess")
        /\ \E raises \in BOOLEAN :
            LET s == SubprocessCreated(raises)
                e == [env[t] EXCEPT !.subprocess = [raises |-> raises]]
            IN IF s.next = "return"
               THEN Complete(t, "download", args[t], e, s.out, trace[t])
               ELSE Suspend(t, s.next, "download", args[t], e, trace[t], worker[t], files)

\* the subprocess ends (line 323)
CommunicateResume ==
    \E t \in Tasks :
        /\ At(t, "download", "communicate")
        /\ \E stdout \in SubprocessStdouts :
            LET s == CommunicateResumed(stdout)
                e == [env[t] EXCEPT !.subprocess = [raises |-> FALSE, stdout |-> stdout]]
            IN IF s.next = "return"
               THEN Complete(t, "download", args[t], e, s.out, trace[t])
               ELSE Suspend(t, s.next, "download", args[t], e, trace[t],
                            [job |-> s.job, out |-> NoneVal], files)

\* a thread of the executor runs the job of task t up to the end of the
\* backend's extraction with download
WorkerExtract ==
    \E t \in Tasks :
        /\ At(t, "download", "executor")
        /\ \E backend \in BackendOutcomes(worker[t].job) :
            LET r == WorkerRun(worker[t].job, args[t], backend, files)
            IN Suspend(t, r.next, "download", args[t],
                       [env[t] EXCEPT !.backend = backend], trace[t] \o r.trace,
                       [job |-> worker[t].job, out |-> r.out], r.files)

\* the thread that runs audio_dl for task t calls os.rename (line 256)
WorkerRename ==
    \E t \in Tasks :
        /\ At(t, "download", "rename")
        /\ LET r == audio_dl_rename(worker[t].out.value.v, files)
           IN Suspend(t, r.next, "download", args[t], env[t], trace[t] \o r.trace,
                      [job |-> worker[t].job, out |-> r.out], r.files)

\* the await of run_in_executor delivers the outcome of the job to download
DownloadResume ==
    \E t \in Tasks :
        /\ At(t, "download", "worker_done")
        /\ Complete(t, "download", args[t], env[t],
                    DownloadReturn(worker[t].job, worker[t].out), trace[t])

\* the caller takes the outcome of the completed call
Return ==
    /\ done # NoCall
    /\ done' = NoCall
    /\ UNCHANGED <<pc, op, args, env, trace, worker, files>>

Next ==
    \/ Url
    \/ Details
    \/ Title
    \/ Duration
    \/ Thumbnail
    \/ Track
    \/ SearchResume
    \/ Video
    \/ Playlist
    \/ Download
    \/ FlagResume
    \/ SubprocessCreate
    \/ CommunicateResume
    \/ WorkerExtract
    \/ WorkerRename
    \/ DownloadResume
    \/ Return

Spec == Init /\ [][Next]_vars

\* the tasks that only resolve references of messages
NextUrl ==
    \/ Url
    \/ Return

SpecUrl == Init /\ [][NextUrl]_vars

\* the tasks that only resolve metadata
NextMetadata ==
    \/ Track
    \/ Details
    \/ Title
    \/ Duration
    \/ Thumbnail
    \/ SearchResume
    \/ Return

SpecMetadata == Init /\ [][NextMetadata]_vars

\* the tasks that only call details
NextDetails ==
    \/ Details
    \/ SearchResume
    \/ Return

SpecDetails == Init /\ [][NextDetails]_vars

\* the tasks that only download
NextDownload ==
    \/ Download
    \/ FlagResume
    \/ SubprocessCreate
    \/ CommunicateResume
    \/ WorkerExtract
    \/ WorkerRename
    \/ DownloadResume
    \/ Return

SpecDownload == Init /\ [][NextDownload]_vars

-----------------------------------------------------------------------------
(* Properties *)

Done(name) == done.op = name

MetadataDone == done.op \in MetadataOps

\* number of events of the trace tr that are calls of kind c
Count(tr, c) == Cardinality({i \in 1..Len(tr) : tr[i].call = c})

\* the events that reach the extraction backend
BackendCalls == {"extract_info", "download", "subprocess"}

\* a query of the search provider failed: it raised or found nothing
SearchFailed(outcome) == outcome.raises \/ outcome.result = <<>>

SentinelTitle == PyStr(<<"Unknown Title">>)
SentinelDisplay == PyStr(<<"0", ":", "0", "0">>)

\* C1: the metadata resolver never raises to its caller, and when both the
\* primary backend and the search provider fail, details returns the sentinel
\* Metadata (title "Unknown Title", 0 seconds, display "0:00").
C1_NeverRaises ==
    MetadataDone =>
        /\ ~done.result.raised
        /\ (done.op = "details" /\ done.env.primary.raises
              /\ SearchFailed(done.env.searches[1]))
              => /\ done.result.value.v[1] = SentinelTitle
                 /\ done.result.value.v[2] = SentinelDisplay
                 /\ done.result.value.v[3] = PyInt(0)

\* C2: whenever the primary backend raises, one call of the metadata resolver
\* queries the search provider exactly once, whatever the other tasks do
\* while the call is suspended at its query.
C2_FallbackOnce ==
    /\ (MetadataDone /\ done.env.primary.raises)
          => Count(done.trace, "VideosSearch") = 1
    /\ \A t \in Tasks :
          (op[t] \in MetadataOps /\ env[t].primary.raises)
             => Count(trace[t], "VideosSearch") = 1

\* C2 witness: details returned the search provider's result after the
\* primary backend raised, having queried the provider once, while another
\* call was suspended at its own query
C2_Witness ==
    /\ Done("details")
    /\ done.env.primary.raises
    /\ ~done.result.raised
    /\ Count(done.trace, "VideosSearch") = 1
    /\ \E t \in Tasks : pc[t] \in {"try_search", "handler_search"}

\* the call wrote a file into the downloads directory
LocalDownload(tr) ==
    \E i \in 1..Len(tr) : tr[i].call = "download"
                          \/ (tr[i].call = "extract_info" /\ tr[i].download)

\* C3: in every result of download that carries the flag, isDirect is true
\* exactly when the location is a remote URL obtained without a local download
\* in that call; a locally downloaded file reports isDirect = false.
C3_DirectIffRemote ==
    (Done("download") /\ ~done.result.raised /\ done.result.value.t = "tuple") =>
        (done.result.value.v[2].v <=> ~LocalDownload(done.trace))

\* C4: with the flag read by download false, a video-mode call never starts
\* the direct-URL subprocess.
C4_NoSubprocessWhenOff ==
    (Done("download") /\ done.env.flag = PyBool(FALSE))
        => Count(done.trace, "subprocess") = 0

\* C5: no exception crosses the boundary of download.
C5_DownloadNeverRaises ==
    Done("download") => ~done.result.raised

\* every backend call of the trace tr directly follows an acquireSlot()
Paced(tr) ==
    \A i \in 1..Len(tr) :
        tr[i].call \in BackendCalls => i > 1 /\ tr[i - 1].call = "acquireSlot"

\* C6: every call that reaches the extraction backend is directly preceded by
\* an acquireSlot() of the request pacer, in the calls in progress and in the
\* call that has completed.
C6_PacedBackendCalls ==
    /\ \A t \in Tasks : Paced(trace[t])
    /\ done # NoCall => Paced(done.trace)

\* the substring of the message's text at the span of its first plain-URL entity
OwnUrlSpan(m) ==
    LET e == m.entities.v[FirstOfType(m.entities.v, "URL")]
    IN PyStr(Slice(m.text.v, e.offset, e.offset + e.length))

HasOwnUrlSpan(m) == Truthy(m.entities) /\ FirstOfType(m.entities.v, "URL") # 0

\* C7: when the message's own entities contain a plain-URL span, at any offset
\* including 0, url returns that span of the message's text whatever the
\* replied-to message contains; a reply of the reply is never inspected.
C7_OwnUrlFirst ==
    Done("url") =>
        /\ HasOwnUrlSpan(done.args.message_1)
              => done.result = Returned(OwnUrlSpan(done.args.message_1))
        /\ ~done.result.raised /\ done.result.value.t = "str"
              => /\ done.result.value.v # RichUrlAt(3)
                 /\ \A o \in 0..MaxOffset :
                        done.result.value.v # Slice(TextAt(3), o, o + SpanLength)

\* the entities of m, wherever the message kind keeps them
EntitiesOf(m) == PyOr(m.entities, m.caption_entities)

\* the first link of m (plain-URL span or rich link) is a rich link
FirstLinkIsRich(m) ==
    /\ Truthy(EntitiesOf(m))
    /\ FirstOfType(EntitiesOf(m).v, "TEXT_LINK") # 0
    /\ \/ FirstOfType(EntitiesOf(m).v, "URL") = 0
       \/ FirstOfType(EntitiesOf(m).v, "TEXT_LINK") < FirstOfType(EntitiesOf(m).v, "URL")

RichUrlOf(m) == EntitiesOf(m).v[FirstOfType(EntitiesOf(m).v, "TEXT_LINK")].url

\* C8: url returns the embedded URL of a rich-link entity wherever it is the
\* first link found: among the message's own entities, or, when the message
\* has no entities, among those of the replied-to message.
C8_RichLink ==
    Done("url") =>
        LET m == done.args.message_1 IN
        /\ FirstLinkIsRich(m) => done.result = Returned(RichUrlOf(m))
        /\ (~Truthy(EntitiesOf(m)) /\ Truthy(m.reply_to_message)
              /\ FirstLinkIsRich(m.reply_to_message))
              => done.result = Returned(RichUrlOf(m.reply_to_message))

\* the "M:SS" display of a duration in seconds
DisplayOf(seconds) ==
    IF seconds.t = "int" THEN PyStr(FormatMinSec(seconds.v)) ELSE NoneVal

\* the tuple details returned to the method of the completed call
DetailsOfCall ==
    DetailsRun(done.args.link, done.args.videoid, done.env.primary,
               done.env.searches).out.value.v

\* C9: in every Metadata handed to a caller (by details, duration and track)
\* the display duration is the "M:SS" formatting of the duration in seconds
\* of the same result.
C9_DisplayFromSeconds ==
    (MetadataDone /\ ~done.result.raised) =>
        /\ done.op = "details"
              => done.result.value.v[2] = DisplayOf(done.result.value.v[3])
        /\ done.op = "duration" => done.result.value = DisplayOf(DetailsOfCall[3])
        /\ done.op = "track"
              => done.result.value.v[1].duration_min = DisplayOf(DetailsOfCall[3])

AudioOnly(a) == ~Truthy(a.songvideo) /\ ~Truthy(a.songaudio) /\ ~Truthy(a.video)

\* C10: in AudioOnly mode, whenever the backend's download succeeds, download
\* returns a location with the canonical audio extension that names a file of
\* the downloads directory.
C10_AudioLocation ==
    (Done("download") /\ AudioOnly(done.args) /\ ~done.env.backend.raises) =>
        /\ ~done.result.raised
        /\ EndsWith(done.result.value.v[1].v, "mp3")
        /\ done.result.value.v[1].v \in files

====
